---- MODULE Spec2Model ----
(***************************************************************************)
(* State-machine model of faceapi_server.js: the startup model-loading     *)
(* phase, the process lifecycle, and the request handlers of the Express   *)
(* application (/health, /models, /stats, 404, /extract_embedding,         *)
(* /batch_extract).  One action is one synchronous run of JavaScript: from *)
(* the arrival of a request, or the settling of an awaited promise, up to  *)
(* the next await or the end of the handler.                               *)
(***************************************************************************)
EXTENDS Integers, Sequences, FiniteSets, TLC

VARIABLES modelsLoaded, loadingProgress, loadIdx, loadCalls, proc, exitCode,
          signalled, now, req

vars == <<modelsLoaded, loadingProgress, loadIdx, loadCalls, proc, exitCode,
          signalled, now, req>>

(* ---------------------------- bounds ----------------------------------- *)

\* number of client connections the server keeps handler state for; the
\* sequential specification Spec drives the first of them
MaxReq == 2
\* longest images array a batch request carries
MaxBatch == 3
\* last millisecond the clock Date.now() reads is followed to
MaxClock == 1

Slots == 1..MaxReq

\* the one connection of the sequential specification
Sequential == {1}

(* ------------------------ static program data -------------------------- *)

modelLoaders ==
    <<"TinyFaceDetector", "FaceLandmark68Net", "FaceRecognitionNet",
      "FaceExpressionNet", "AgeGenderNet", "SsdMobilenetv1">>

detectionStrategies ==
    <<"TinyFaceDetector_High", "TinyFaceDetector_Medium",
      "TinyFaceDetector_Low", "SsdMobilenetv1">>

\* the batch path's fixed detector options, inputSize 416 / scoreThreshold
\* 0.3, are the options of detectionStrategies[1]
BatchConfig == 1

(* ------------------------- request payloads ---------------------------- *)
(* An image payload is what the client put in the JSON body.  A payload    *)
(* that decodes carries, as its content, what the inference engine does    *)
(* with the decoded image under each of the four detector configurations   *)
(* (the engine is a deterministic black box of the image and the options). *)

EngineOutcomes == {"face", "none", "raise"}

Payload(kind, out) == [kind |-> kind, out |-> out]

NoPayload == Payload("missing", <<>>)

DecodableImages ==
    {Payload("image", <<a, b, c, d>>) :
        a \in EngineOutcomes, b \in EngineOutcomes,
        c \in EngineOutcomes, d \in EngineOutcomes}

\* bodies of POST /extract_embedding: no image field, a truthy value that is
\* not a string, a string that is not an image, or an image
SinglePayloads ==
    {NoPayload, Payload("nonstring", <<>>), Payload("corrupt", <<>>)}
        \cup DecodableImages

\* items of a batch: the same kinds, over a palette of four images
BatchItems ==
    {NoPayload, Payload("corrupt", <<>>),
     Payload("image", <<"face", "face", "face", "face">>),
     Payload("image", <<"none", "face", "none", "none">>),
     Payload("image", <<"raise", "none", "face", "none">>)}

RECURSIVE SeqsUpTo(_, _)
SeqsUpTo(S, n) ==
    IF n = 0 THEN {<<>>}
    ELSE LET shorter == SeqsUpTo(S, n - 1)
         IN  shorter \cup {Append(q, x) : q \in {p \in shorter : Len(p) = n - 1}, x \in S}

\* bodies of POST /batch_extract: images absent or not an array, or an array
BatchBodies ==
    {[isArray |-> FALSE, items |-> <<>>]}
        \cup {[isArray |-> TRUE, items |-> q] : q \in SeqsUpTo(BatchItems, MaxBatch)}

(* --------------------------- the engine -------------------------------- *)

\* Buffer.from(payload, 'base64') throws a TypeError on undefined and on
\* values that are neither strings nor buffers
BufferFromThrows(p) == p.kind \in {"missing", "nonstring"}

\* canvas.loadImage(buffer) resolves for image data and rejects otherwise
LoadImageResolves(p) == p.kind = "image"

\* faceapi.detectSingleFace(img, options).withFaceLandmarks().withFaceDescriptor()
EngineOutcome(img, cfg) == IF img = <<>> THEN "raise" ELSE img[cfg]

\* the value the engine call resolves to: a detection whose descriptor is a
\* function of the image and the options, or undefined
EngineDetection(img, cfg) ==
    IF EngineOutcome(img, cfg) = "face"
    THEN [present |-> TRUE, descriptor |-> <<img, cfg>>]
    ELSE [present |-> FALSE, descriptor |-> <<>>]

NullDetection == [present |-> FALSE, descriptor |-> <<>>]

\* detection && detection.descriptor
IsValid(d) == d.present /\ d.descriptor # <<>>

Call(op, cfg, item) == [op |-> op, cfg |-> cfg, item |-> item]

(* --------------------------- request state ----------------------------- *)

NoResponse == [status |-> 0]

\* a connection attempt that found no listening socket
ConnectionRefused == [status |-> -1]

IdleReq ==
    [ep |-> "idle", pc |-> "idle", arrivedReady |-> FALSE,
     image |-> NoPayload, images |-> <<>>, isArray |-> FALSE,
     img |-> <<>>, k |-> 0, detection |-> NullDetection,
     usedStrategy |-> "null", i |-> 0, results |-> <<>>,
     startTime |-> 0, imageStartTime |-> 0,
     calls |-> <<>>, sent |-> 0, resp |-> NoResponse]

\* res.status(c).json(body): the response leaves and the handler is over
Send(r, status, body) ==
    [r EXCEPT !.pc = "done", !.sent = @ + 1,
              !.resp = [status |-> status, body |-> body]]

(* ------------------------------ startup -------------------------------- *)

Init ==
    /\ modelsLoaded = FALSE
    /\ loadingProgress = <<>>
    /\ loadIdx = 1
    /\ loadCalls = [m \in 1..Len(modelLoaders) |-> IF m = 1 THEN 1 ELSE 0]
    /\ proc = "loading"
    /\ exitCode = -1
    /\ signalled = "none"
    /\ now = 0
    /\ req = [s \in Slots |-> IdleReq]

\* loadingProgress[name] = value
SetProgress(lp, name, value) ==
    [n \in (DOMAIN lp) \cup {name} |-> IF n = name THEN value ELSE lp[n]]

\* StartupThen without the test of success
StartupThenListens(success) == [proc |-> "listening", exitCode |-> -1]

\* loadModels().then(success => ...): listen on success, exit(1) otherwise
StartupThen(success) ==
    IF success THEN [proc |-> "listening", exitCode |-> -1]
    ELSE [proc |-> "exited", exitCode |-> 1]

\* the awaited loader of modelLoaders[loadIdx] resolves
LoadModelOk ==
    /\ proc = "loading"
    /\ loadIdx <= Len(modelLoaders)
    /\ loadingProgress' = SetProgress(loadingProgress, modelLoaders[loadIdx], "loaded")
    /\ loadIdx' = loadIdx + 1
    /\ IF loadIdx < Len(modelLoaders)
       THEN /\ loadCalls' = [loadCalls EXCEPT ![loadIdx + 1] = @ + 1]
            /\ UNCHANGED <<modelsLoaded, proc, exitCode>>
       ELSE /\ modelsLoaded' = TRUE
            /\ proc' = StartupThen(TRUE).proc
            /\ exitCode' = StartupThen(TRUE).exitCode
            /\ UNCHANGED loadCalls
    /\ UNCHANGED <<signalled, now, req>>

\* LoadModelFail without the rethrow: the loop goes on to the next model
LoadModelFailContinues ==
    /\ proc = "loading"
    /\ loadIdx <= Len(modelLoaders)
    /\ loadingProgress' = SetProgress(loadingProgress, modelLoaders[loadIdx], "failed")
    /\ loadIdx' = loadIdx + 1
    /\ IF loadIdx < Len(modelLoaders)
       THEN /\ loadCalls' = [loadCalls EXCEPT ![loadIdx + 1] = @ + 1]
            /\ UNCHANGED <<modelsLoaded, proc, exitCode>>
       ELSE /\ modelsLoaded' = TRUE
            /\ proc' = StartupThen(TRUE).proc
            /\ exitCode' = StartupThen(TRUE).exitCode
            /\ UNCHANGED loadCalls
    /\ UNCHANGED <<signalled, now, req>>

\* the awaited loader of modelLoaders[loadIdx] rejects
LoadModelFail ==
    /\ proc = "loading"
    /\ loadIdx <= Len(modelLoaders)
    /\ loadingProgress' = SetProgress(loadingProgress, modelLoaders[loadIdx], "failed")
    /\ modelsLoaded' = FALSE
    /\ proc' = StartupThen(FALSE).proc
    /\ exitCode' = StartupThen(FALSE).exitCode
    /\ UNCHANGED <<loadIdx, loadCalls, signalled, now, req>>

\* process.on('SIGINT' | 'SIGTERM'): process.exit(0)
Signal(sig) ==
    /\ proc # "exited"
    /\ proc' = "exited"
    /\ exitCode' = 0
    /\ signalled' = sig
    /\ UNCHANGED <<modelsLoaded, loadingProgress, loadIdx, loadCalls, now, req>>

\* the wall clock read by Date.now() advances
Tick ==
    /\ proc # "exited"
    /\ now < MaxClock
    /\ now' = now + 1
    /\ UNCHANGED <<modelsLoaded, loadingProgress, loadIdx, loadCalls, proc, exitCode, signalled, req>>

Frame == UNCHANGED <<modelsLoaded, loadingProgress, loadIdx, loadCalls, proc, exitCode, signalled, now>>

\* Arrival with app.listen called at module level, before the models are loaded
ArrivalBeforeReady(s, ep) ==
    /\ proc # "exited"
    /\ req[s].pc = "idle"

Arrival(s, ep) ==
    /\ proc = "listening"
    /\ req[s].pc = "idle"

NewReq(ep) == [IdleReq EXCEPT !.ep = ep, !.arrivedReady = modelsLoaded]

(* ----------------------- connections and GET routes -------------------- *)

\* app.listen is only called once loadModels has succeeded: until then no
\* socket is bound and a client's request is refused by the operating system
Refused(s, ep) ==
    /\ proc = "loading"
    /\ req[s].pc = "idle"
    /\ req' = [req EXCEPT ![s] = [NewReq(ep) EXCEPT !.pc = "done", !.resp = ConnectionRefused]]
    /\ Frame

\* the client is done with the exchange; the connection can carry a new request
Close(s) ==
    /\ proc # "exited"
    /\ req[s].pc = "done"
    /\ req' = [req EXCEPT ![s] = IdleReq]
    /\ Frame

HealthHandler(s) ==
    /\ Arrival(s, "health")
    /\ req' = [req EXCEPT ![s] =
                  Send(NewReq("health"), 200,
                       [status |-> "ok", modelsLoaded |-> modelsLoaded,
                        loadingProgress |-> loadingProgress])]
    /\ Frame

ModelsHandler(s) ==
    /\ Arrival(s, "models")
    /\ req' = [req EXCEPT ![s] =
                  Send(NewReq("models"), 200,
                       [modelsLoaded |-> modelsLoaded,
                        loadingProgress |-> loadingProgress,
                        availableModels |-> DOMAIN loadingProgress])]
    /\ Frame

\* StatsHandler that resets the ready flag while reporting
StatsHandlerResets(s) ==
    /\ Arrival(s, "stats")
    /\ req' = [req EXCEPT ![s] =
                  Send(NewReq("stats"), 200,
                       [modelsLoaded |-> modelsLoaded,
                        loadingProgress |-> loadingProgress])]
    /\ modelsLoaded' = FALSE
    /\ UNCHANGED <<loadingProgress, loadIdx, loadCalls, proc, exitCode, signalled, now>>

StatsHandler(s) ==
    /\ Arrival(s, "stats")
    /\ req' = [req EXCEPT ![s] =
                  Send(NewReq("stats"), 200,
                       [modelsLoaded |-> modelsLoaded,
                        loadingProgress |-> loadingProgress])]
    /\ Frame

NotFoundHandler(s) ==
    /\ Arrival(s, "notfound")
    /\ req' = [req EXCEPT ![s] =
                  Send(NewReq("notfound"), 404, [error |-> "Endpoint not found"])]
    /\ Frame

(* ----------------------- POST /extract_embedding ----------------------- *)

\* the outer catch of the handler
ExtractOuterCatch(r, message) ==
    Send(r, 500, [success |-> FALSE, error |-> message,
                  inferenceTime |-> now - r.startTime])

\* detectionStrategies.map(s => s.name)
StrategiesTried == detectionStrategies

\* ExtractRespond with no res.json in the branch of the failed detection
ExtractRespondSilentOnFailure(r) ==
    LET totalTime == now - r.startTime
    IN  IF IsValid(r.detection)
        THEN Send(r, 200, [success |-> TRUE,
                           embedding |-> r.detection.descriptor,
                           inferenceTime |-> totalTime,
                           strategy |-> r.usedStrategy])
        ELSE [r EXCEPT !.pc = "returned"]

\* the code after the strategy loop
ExtractRespond(r) ==
    LET totalTime == now - r.startTime
    IN  IF IsValid(r.detection)
        THEN Send(r, 200, [success |-> TRUE,
                           embedding |-> r.detection.descriptor,
                           inferenceTime |-> totalTime,
                           strategy |-> r.usedStrategy])
        ELSE Send(r, 200, [success |-> FALSE,
                           error |-> "No face detected with any strategy",
                           inferenceTime |-> totalTime,
                           strategiesTried |-> StrategiesTried])

\* StrategyLoop with the loop bound off by one: the last strategy is skipped
StrategyLoopSkipsLast(r) ==
    IF r.k >= Len(detectionStrategies)
    THEN ExtractRespond(r)
    ELSE [r EXCEPT !.pc = "detect", !.calls = Append(@, Call("detect", r.k, 0))]

\* head of `for (const strategy of detectionStrategies)` with r.k the next
\* strategy: the engine call is issued and awaited, or the loop is over
StrategyLoop(r) ==
    IF r.k > Len(detectionStrategies)
    THEN ExtractRespond(r)
    ELSE [r EXCEPT !.pc = "detect", !.calls = Append(@, Call("detect", r.k, 0))]

\* StrategyCatch that rethrows instead of continuing
StrategyCatchAborts(r) == ExtractOuterCatch(r, "EngineError")

\* catch (err) { console.warn(...); continue; }
StrategyCatch(r) == StrategyLoop([r EXCEPT !.k = @ + 1])

\* StrategyResult that records the strategy name before testing the detection
StrategyResultNamesEarly(r) ==
    IF IsValid(r.detection)
    THEN ExtractRespond([r EXCEPT !.usedStrategy = detectionStrategies[r.k]])
    ELSE StrategyLoop([r EXCEPT !.usedStrategy = detectionStrategies[r.k], !.k = @ + 1])

\* StrategyResult without the break
StrategyResultNoBreak(r) ==
    StrategyLoop([r EXCEPT !.usedStrategy = IF IsValid(r.detection)
                                            THEN detectionStrategies[r.k] ELSE @,
                           !.k = @ + 1])

\* if (detection && detection.descriptor) { usedStrategy = ...; break; }
StrategyResult(r) ==
    IF IsValid(r.detection)
    THEN ExtractRespond([r EXCEPT !.usedStrategy = detectionStrategies[r.k]])
    ELSE StrategyLoop([r EXCEPT !.k = @ + 1])

\* DecodeFailed without the return: the 400 is sent and the handler goes on
DecodeFailedNoReturn(r) ==
    StrategyLoop([Send(r, 400, [success |-> FALSE,
                                error |-> "Invalid image format or corrupted base64 data"])
                     EXCEPT !.k = 1])

\* DecodeFailed that swallows the error and goes on to the strategy loop
DecodeFailedFallsThrough(r) ==
    StrategyLoop([r EXCEPT !.detection = NullDetection, !.usedStrategy = "null", !.k = 1])

\* the catch around Buffer.from / canvas.loadImage
DecodeFailed(r) ==
    Send(r, 400, [success |-> FALSE,
                  error |-> "Invalid image format or corrupted base64 data"])

\* the handler from its first line to the first await
ExtractHandler(r) ==
    IF ~modelsLoaded
    THEN Send(r, 503, [success |-> FALSE, error |-> "Models not loaded yet",
                       progress |-> loadingProgress])
    ELSE LET r1 == [r EXCEPT !.startTime = now]
         IN  IF r1.image.kind = "missing"
             THEN Send(r1, 400, [success |-> FALSE,
                                 error |-> "No image provided in request body"])
             ELSE IF BufferFromThrows(r1.image)
                  THEN DecodeFailed(r1)
                  ELSE [r1 EXCEPT !.pc = "decode",
                                  !.calls = Append(@, Call("loadImage", 0, 0))]

ExtractEntry(s, image) ==
    /\ Arrival(s, "extract")
    /\ req' = [req EXCEPT ![s] = ExtractHandler([NewReq("extract") EXCEPT !.image = image])]
    /\ Frame

\* await canvas.loadImage(buffer) settles
ExtractDecoded(s) ==
    /\ proc = "listening"
    /\ req[s].ep = "extract"
    /\ req[s].pc = "decode"
    /\ LET r == req[s]
       IN  req' = [req EXCEPT ![s] =
                      IF LoadImageResolves(r.image)
                      THEN StrategyLoop([r EXCEPT !.img = r.image.out,
                                                  !.detection = NullDetection,
                                                  !.usedStrategy = "null",
                                                  !.k = 1])
                      ELSE DecodeFailed(r)]
    /\ Frame

\* ExtractDetected with img declared at module level: the engine's answer is
\* the one for whichever image a request decoded last
ExtractDetectedSharedImg(s) ==
    /\ proc = "listening"
    /\ req[s].ep = "extract"
    /\ req[s].pc = "detect"
    /\ \E t \in Slots :
          /\ req[t].img # <<>>
          /\ LET r == [req[s] EXCEPT !.img = req[t].img]
             IN  req' = [req EXCEPT ![s] =
                            IF EngineOutcome(r.img, r.k) = "raise"
                            THEN StrategyCatch(r)
                            ELSE StrategyResult([r EXCEPT !.detection = EngineDetection(r.img, r.k)])]
    /\ Frame

\* await faceapi.detectSingleFace(img, strategy.options)... settles
ExtractDetected(s) ==
    /\ proc = "listening"
    /\ req[s].ep = "extract"
    /\ req[s].pc = "detect"
    /\ LET r == req[s]
       IN  req' = [req EXCEPT ![s] =
                      IF EngineOutcome(r.img, r.k) = "raise"
                      THEN StrategyCatch(r)
                      ELSE StrategyResult([r EXCEPT !.detection = EngineDetection(r.img, r.k)])]
    /\ Frame

(* -------------------------- POST /batch_extract ------------------------ *)

\* JavaScript numbers that a division can produce
JsNumber(n) == [t |-> "number", v |-> n]
JsNaN == [t |-> "NaN", v |-> 0]
JsInfinity == [t |-> "Infinity", v |-> 0]
JsonNull == [t |-> "null", v |-> 0]

\* Math.round(a / b) for integers a >= 0, b >= 0: 0 / 0 is NaN, a / 0 is
\* Infinity, and Math.round rounds halves up
MathRoundDiv(a, b) ==
    IF b = 0
    THEN (IF a = 0 THEN JsNaN ELSE JsInfinity)
    ELSE JsNumber((2 * a + b) \div (2 * b))

\* JSON.stringify, as res.json applies it to a number: NaN and Infinity
\* are written as null
JsonNumber(x) == IF x.t = "number" THEN x ELSE JsonNull

\* the outer catch of the handler
BatchOuterCatch(r, message) == Send(r, 500, [error |-> message])

\* results.filter(r => r.success).length
Successful(results) == Cardinality({j \in 1..Len(results) : results[j].success})

\* the code after the item loop
BatchRespond(r) ==
    LET totalTime == now - r.startTime
        successful == Successful(r.results)
    IN  Send(r, 200,
             [results |-> r.results,
              summary |-> [total |-> Len(r.images),
                           successful |-> successful,
                           failed |-> Len(r.images) - successful,
                           totalTime |-> totalTime,
                           averageTime |-> JsonNumber(MathRoundDiv(totalTime, Len(r.images)))]])

\* BatchCatch that swallows the error without recording a result
BatchCatchDrops(r, message) == r

\* catch (error) { results.push({index: i, success: false, ...}) }
BatchCatch(r, message) ==
    [r EXCEPT !.results = Append(@, [index |-> r.i, success |-> FALSE,
                                     inferenceTime |-> now - r.imageStartTime,
                                     error |-> message])]

\* BatchItemResult that falls back to the second strategy of the single path
BatchItemResultFallsBack(r) ==
    LET imageTime == now - r.imageStartTime
        fallback == EngineDetection(r.img, 2)
        r1 == [r EXCEPT !.calls = Append(@, Call("detect", 2, r.i))]
    IN  IF IsValid(r.detection)
        THEN [r EXCEPT !.results = Append(@, [index |-> r.i, success |-> TRUE,
                                              embedding |-> r.detection.descriptor,
                                              inferenceTime |-> imageTime])]
        ELSE IF IsValid(fallback)
             THEN [r1 EXCEPT !.results = Append(@, [index |-> r.i, success |-> TRUE,
                                                    embedding |-> fallback.descriptor,
                                                    inferenceTime |-> imageTime])]
             ELSE [r1 EXCEPT !.results = Append(@, [index |-> r.i, success |-> FALSE,
                                                    inferenceTime |-> imageTime,
                                                    error |-> "No face detected"])]

\* the if / else after the engine call of item i has resolved
BatchItemResult(r) ==
    LET imageTime == now - r.imageStartTime
    IN  IF IsValid(r.detection)
        THEN [r EXCEPT !.results = Append(@, [index |-> r.i, success |-> TRUE,
                                              embedding |-> r.detection.descriptor,
                                              inferenceTime |-> imageTime])]
        ELSE [r EXCEPT !.results = Append(@, [index |-> r.i, success |-> FALSE,
                                              inferenceTime |-> imageTime,
                                              error |-> "No face detected"])]

RECURSIVE BatchLoop(_)

\* i++ and back to the loop head
BatchNext(r) == BatchLoop([r EXCEPT !.i = @ + 1])

\* BatchItemFailed without the per-item try: the throw reaches the outer catch
BatchItemFailedAborts(r, message) == BatchOuterCatch(r, message)

\* a throw inside the per-item try: the per-item catch, then the next item
BatchItemFailed(r, message) == BatchNext(BatchCatch(r, message))

\* BatchLoop that starts the decode of every remaining item at once
BatchLoopEager(r) ==
    IF ~(r.i < Len(r.images))
    THEN BatchRespond(r)
    ELSE LET r1 == [r EXCEPT !.imageStartTime = now, !.img = <<>>,
                             !.detection = NullDetection]
         IN  IF BufferFromThrows(r1.images[r1.i + 1])
             THEN BatchItemFailed(r1, "TypeError")
             ELSE [r1 EXCEPT !.pc = "decode",
                             !.calls = @ \o [j \in 1..(Len(r1.images) - r1.i) |->
                                                Call("loadImage", 0, r1.i + j - 1)]]

\* head of `for (let i = 0; i < images.length; i++)`: runs on, through items
\* whose Buffer.from throws, to the next await or to the end of the loop
BatchLoop(r) ==
    IF ~(r.i < Len(r.images))
    THEN BatchRespond(r)
    ELSE LET r1 == [r EXCEPT !.imageStartTime = now, !.img = <<>>,
                             !.detection = NullDetection]
         IN  IF BufferFromThrows(r1.images[r1.i + 1])
             THEN BatchItemFailed(r1, "TypeError")
             ELSE [r1 EXCEPT !.pc = "decode",
                             !.calls = Append(@, Call("loadImage", 0, r1.i))]

\* the handler from its first line to the first await
BatchHandler(r) ==
    IF ~modelsLoaded
    THEN Send(r, 503, [error |-> "Models not loaded yet",
                       progress |-> loadingProgress])
    ELSE IF ~r.isArray
         THEN Send(r, 400, [error |-> "Images array is required"])
         ELSE BatchLoop([r EXCEPT !.results = <<>>, !.startTime = now, !.i = 0])

BatchEntry(s, body) ==
    /\ Arrival(s, "batch")
    /\ req' = [req EXCEPT ![s] =
                  BatchHandler([NewReq("batch") EXCEPT !.images = body.items,
                                                       !.isArray = body.isArray])]
    /\ Frame

\* await canvas.loadImage(Buffer.from(images[i], 'base64')) settles
BatchDecoded(s) ==
    /\ proc = "listening"
    /\ req[s].ep = "batch"
    /\ req[s].pc = "decode"
    /\ LET r == req[s]
           item == r.images[r.i + 1]
       IN  req' = [req EXCEPT ![s] =
                      IF LoadImageResolves(item)
                      THEN [r EXCEPT !.img = item.out, !.pc = "detect",
                                     !.calls = Append(@, Call("detect", BatchConfig, r.i))]
                      ELSE BatchItemFailed(r, "DecodeError")]
    /\ Frame

\* await faceapi.detectSingleFace(img, new TinyFaceDetectorOptions(...))... settles
BatchDetected(s) ==
    /\ proc = "listening"
    /\ req[s].ep = "batch"
    /\ req[s].pc = "detect"
    /\ LET r == req[s]
       IN  req' = [req EXCEPT ![s] =
                      IF EngineOutcome(r.img, BatchConfig) = "raise"
                      THEN BatchItemFailed(r, "EngineError")
                      ELSE BatchNext(BatchItemResult(
                               [r EXCEPT !.detection = EngineDetection(r.img, BatchConfig)]))]
    /\ Frame

RequestStep(s) ==
    \/ \E ep \in {"extract", "batch", "health"} : Refused(s, ep)
    \/ Close(s)
    \/ HealthHandler(s)
    \/ ModelsHandler(s)
    \/ StatsHandler(s)
    \/ NotFoundHandler(s)
    \/ \E image \in SinglePayloads : ExtractEntry(s, image)
    \/ ExtractDecoded(s)
    \/ ExtractDetected(s)
    \/ \E body \in BatchBodies : BatchEntry(s, body)
    \/ BatchDecoded(s)
    \/ BatchDetected(s)

Next ==
    \/ LoadModelOk
    \/ LoadModelFail
    \/ \E sig \in {"SIGINT", "SIGTERM"} : Signal(sig)
    \/ Tick
    \/ \E s \in Sequential : RequestStep(s)

Spec == Init /\ [][Next]_vars

(* ------------------------------ fairness ------------------------------- *)

\* an awaited promise that is pending settles: the decoder and the engine
\* eventually return or raise, and the event loop then resumes the handler
Settle(s) ==
    \/ ExtractDecoded(s)
    \/ ExtractDetected(s)
    \/ BatchDecoded(s)
    \/ BatchDetected(s)

SpecLive == Init /\ [][Next]_vars /\ \A s \in Sequential : WF_vars(Settle(s))

(* ------------------------ concurrent requests -------------------------- *)
(* Several connections in flight at once, their handlers interleaving at   *)
(* the awaits.  The payloads are a fixed selection, one per kind of        *)
(* outcome, so that the interleavings of all connections can be followed.  *)

ConcImages ==
    {Payload("corrupt", <<>>),
     Payload("image", <<"face", "face", "face", "face">>),
     Payload("image", <<"none", "raise", "face", "none">>)}

ConcBatches ==
    {[isArray |-> TRUE,
      items |-> <<Payload("image", <<"face", "face", "face", "face">>),
                  Payload("corrupt", <<>>)>>],
     [isArray |-> TRUE,
      items |-> <<Payload("image", <<"raise", "none", "face", "none">>),
                  NoPayload,
                  Payload("image", <<"none", "face", "none", "none">>)>>]}

ConcStep(s) ==
    \/ Close(s)
    \/ \E image \in ConcImages : ExtractEntry(s, image)
    \/ ExtractDecoded(s)
    \/ ExtractDetected(s)
    \/ \E body \in ConcBatches : BatchEntry(s, body)
    \/ BatchDecoded(s)
    \/ BatchDetected(s)

NextConc ==
    \/ LoadModelOk
    \/ Tick
    \/ \E s \in Slots : ConcStep(s)

SpecConc == Init /\ [][NextConc]_vars

(* ================== properties of POST /extract_embedding ============== *)

DetectCalls(r) == SelectSeq(r.calls, LAMBDA c : c.op = "detect")

\* the first strategy under which the engine finds a face in the image, or 0
FirstFace(out) ==
    IF \E k \in 1..Len(out) : out[k] = "face"
    THEN CHOOSE k \in 1..Len(out) :
             out[k] = "face" /\ \A j \in 1..(k - 1) : out[j] # "face"
    ELSE 0

\* C1: in the single-image path the engine is invoked with the strategies
\* in list order, each at most once; no strategy is invoked after one has
\* returned a valid detection, and the loop ends only at the first success
\* or when the list is exhausted.
C1_StrategyOrder ==
    \A s \in Slots :
        req[s].ep = "extract" =>
            LET r == req[s]
                d == DetectCalls(r)
            IN  /\ Len(d) <= Len(detectionStrategies)
                /\ \A j \in 1..Len(d) : d[j].cfg = j
                /\ \A j \in 1..(Len(d) - 1) : EngineOutcome(r.img, j) # "face"
                /\ (r.pc = "done" /\ Len(d) > 0) =>
                      \/ EngineOutcome(r.img, Len(d)) = "face"
                      \/ Len(d) = Len(detectionStrategies)

\* a request answered after two engine calls: the first strategy raised, the
\* second succeeded, and the third, which would also succeed, was not invoked
C1_Witness ==
    \E s \in Slots :
        /\ req[s].ep = "extract" /\ req[s].pc = "done"
        /\ req[s].image = Payload("image", <<"raise", "face", "face", "none">>)
        /\ Len(DetectCalls(req[s])) = 2
        /\ req[s].resp.status = 200

\* C2: when no strategy yields a valid detection for a decoded image, the
\* response is success=false with error 'No face detected with any
\* strategy', strategiesTried is the four configured names in order, and
\* each of the four strategies was invoked exactly once.
C2_Exhausted ==
    \A s \in Slots :
        LET r == req[s] IN
        (/\ r.ep = "extract" /\ r.pc = "done"
         /\ r.image.kind = "image"
         /\ \A k \in 1..4 : EngineOutcome(r.image.out, k) # "face")
        => /\ r.resp.status = 200
           /\ r.resp.body.success = FALSE
           /\ r.resp.body.error = "No face detected with any strategy"
           /\ Len(r.resp.body.strategiesTried) = 4
           /\ r.resp.body.strategiesTried =
                 <<"TinyFaceDetector_High", "TinyFaceDetector_Medium",
                   "TinyFaceDetector_Low", "SsdMobilenetv1">>
           /\ Len(DetectCalls(r)) = 4
           /\ \A j \in 1..4 : DetectCalls(r)[j].cfg = j

C2_Witness ==
    \E s \in Slots :
        /\ req[s].ep = "extract" /\ req[s].pc = "done"
        /\ req[s].image = Payload("image", <<"none", "raise", "none", "raise">>)
        /\ req[s].resp.status = 200
        /\ req[s].resp.body.success = FALSE

\* C3: an engine raise during strategy k does not abort the request: the
\* next strategy in order is attempted, a later strategy that returns a
\* valid detection gives success=true naming that strategy, and the request
\* is never answered with HTTP 500.
C3_RaiseContinues ==
    \A s \in Slots :
        req[s].ep = "extract" =>
            LET r == req[s]
                d == DetectCalls(r)
                settled == IF r.pc = "done" THEN Len(d) ELSE Len(d) - 1
                first == FirstFace(r.image.out)
            IN  /\ r.resp.status # 500
                /\ \A j \in 1..settled :
                      (EngineOutcome(r.img, d[j].cfg) = "raise"
                         /\ d[j].cfg < Len(detectionStrategies))
                      => /\ Len(d) > j
                         /\ d[j + 1].cfg = d[j].cfg + 1
                /\ (/\ r.pc = "done"
                    /\ r.image.kind = "image"
                    /\ first > 0
                    /\ \E k \in 1..(first - 1) : r.image.out[k] = "raise")
                   => /\ r.resp.status = 200
                      /\ r.resp.body.success = TRUE
                      /\ r.resp.body.strategy = detectionStrategies[first]

C3_Witness ==
    \E s \in Slots :
        /\ req[s].ep = "extract" /\ req[s].pc = "done"
        /\ req[s].image = Payload("image", <<"raise", "none", "raise", "face">>)
        /\ req[s].resp.status = 200
        /\ req[s].resp.body.success = TRUE
        /\ req[s].resp.body.strategy = "SsdMobilenetv1"

\* C8: with the engine ready, a missing image field or a payload that does
\* not decode is answered with HTTP 400 and success=false, and no detection
\* strategy is attempted for that request.
C8_BadInput400 ==
    \A s \in Slots :
        LET r == req[s] IN
        (/\ r.ep = "extract"
         /\ r.arrivedReady
         /\ r.image.kind \in {"missing", "nonstring", "corrupt"})
        => /\ DetectCalls(r) = <<>>
           /\ r.pc = "done" => /\ r.resp.status = 400
                               /\ r.resp.body.success = FALSE

\* a payload that reached canvas.loadImage, was rejected and answered 400
C8_Witness ==
    \E s \in Slots :
        /\ req[s].ep = "extract" /\ req[s].pc = "done"
        /\ req[s].image.kind = "corrupt"
        /\ Len(req[s].calls) = 1
        /\ req[s].resp.status = 400

(* ==================== properties of POST /batch_extract ================ *)

\* the items of a batch per kind of outcome
ItemOutcome(item) ==
    IF BufferFromThrows(item) THEN "TypeError"
    ELSE IF ~LoadImageResolves(item) THEN "DecodeError"
    ELSE EngineOutcome(item.out, BatchConfig)

\* C4: for every accepted batch the response has one result per image,
\* results[i].index = i, summary.total = len(images), summary.successful is
\* the number of results with success=true, and successful + failed = total.
C4_BatchAccounting ==
    \A s \in Slots :
        LET r == req[s] IN
        (r.ep = "batch" /\ r.pc = "done" /\ r.arrivedReady /\ r.isArray)
        => /\ r.resp.status = 200
           /\ LET results == r.resp.body.results
                  summary == r.resp.body.summary
              IN  /\ Len(results) = Len(r.images)
                  /\ \A j \in 1..Len(results) : results[j].index = j - 1
                  /\ summary.total = Len(r.images)
                  /\ summary.successful =
                        Cardinality({j \in 1..Len(results) : results[j].success = TRUE})
                  /\ summary.successful + summary.failed = summary.total

\* a batch of three with a decode failure, an engine raise and a detection
C4_Witness ==
    \E s \in Slots :
        /\ req[s].ep = "batch" /\ req[s].pc = "done"
        /\ Len(req[s].images) = 3
        /\ ItemOutcome(req[s].images[1]) = "DecodeError"
        /\ ItemOutcome(req[s].images[2]) = "raise"
        /\ ItemOutcome(req[s].images[3]) = "face"
        /\ req[s].resp.status = 200
        /\ req[s].resp.body.summary.successful = 1

\* what a batch holding only this item records for it, index and time aside
SoloResult(item) ==
    CASE ItemOutcome(item) = "face" ->
            [success |-> TRUE, value |-> <<item.out, BatchConfig>>]
      [] ItemOutcome(item) = "none" ->
            [success |-> FALSE, value |-> "No face detected"]
      [] ItemOutcome(item) = "raise" ->
            [success |-> FALSE, value |-> "EngineError"]
      [] OTHER ->
            [success |-> FALSE, value |-> ItemOutcome(item)]

Recorded(result) ==
    IF result.success
    THEN [success |-> TRUE, value |-> result.embedding]
    ELSE [success |-> FALSE, value |-> result.error]

\* C5: an item whose decode fails or whose engine call raises is recorded
\* with success=false and an error string, the batch still answers 200 with
\* one result per image, and every item's result is the one its own payload
\* determines, whatever happened to the other items.
C5_ItemIsolation ==
    \A s \in Slots :
        LET r == req[s] IN
        (r.ep = "batch" /\ r.arrivedReady /\ r.isArray)
        => /\ r.resp.status # 500
           /\ \A j \in 1..Len(r.results) :
                 /\ r.results[j].index = j - 1
                 /\ Recorded(r.results[j]) = SoloResult(r.images[j])
                 /\ ItemOutcome(r.images[j]) \in {"TypeError", "DecodeError", "raise"}
                       => /\ r.results[j].success = FALSE
                          /\ "error" \in DOMAIN r.results[j]
           /\ r.pc = "done" => /\ r.resp.status = 200
                               /\ r.resp.body.results = r.results
                               /\ Len(r.results) = Len(r.images)

\* three images, the second malformed: three results, the second failed, the
\* first and the third successful
C5_Witness ==
    \E s \in Slots :
        /\ req[s].ep = "batch" /\ req[s].pc = "done"
        /\ Len(req[s].images) = 3
        /\ ItemOutcome(req[s].images[1]) = "face"
        /\ ItemOutcome(req[s].images[2]) = "DecodeError"
        /\ ItemOutcome(req[s].images[3]) = "face"
        /\ Len(req[s].resp.body.results) = 3
        /\ req[s].resp.body.results[1].success
        /\ ~req[s].resp.body.results[2].success
        /\ req[s].resp.body.results[3].success

\* C6: images = [] is accepted and yields summary.total = 0, successful = 0,
\* failed = 0 and an average time equal to 0.
C6_EmptyBatchAverageZero ==
    \A s \in Slots :
        LET r == req[s] IN
        (r.ep = "batch" /\ r.pc = "done" /\ r.arrivedReady
           /\ r.isArray /\ r.images = <<>>)
        => /\ r.resp.status = 200
           /\ r.resp.body.summary.total = 0
           /\ r.resp.body.summary.successful = 0
           /\ r.resp.body.summary.failed = 0
           /\ r.resp.body.summary.averageTime = JsNumber(0)

(* ========================= readiness and lifecycle ===================== *)

\* C7: a request to /extract_embedding or /batch_extract that arrives before
\* the engine is ready is answered with HTTP 503 carrying the progress of
\* the partially loaded state, and no decode or engine call is made for it.
C7_NotReady503 ==
    \A s \in Slots :
        LET r == req[s] IN
        (r.ep \in {"extract", "batch"} /\ r.pc = "done" /\ ~r.arrivedReady)
        => /\ r.resp.status = 503
           /\ r.calls = <<>>

\* C9: no step of a request handler changes modelsLoaded or loadingProgress;
\* they are written only while the startup phase is loading, and once
\* loading is over their values never change.
C9_ReadOnlyAfterStartup ==
    [][/\ req' # req => UNCHANGED <<modelsLoaded, loadingProgress>>
       /\ proc # "loading" => UNCHANGED <<modelsLoaded, loadingProgress>>
       /\ (modelsLoaded' # modelsLoaded \/ loadingProgress' # loadingProgress)
             => (proc = "loading" /\ req' = req)]_vars

\* requests of every route answered while the flag stays set
C9_Witness ==
    \E s \in Slots :
        /\ req[s].ep = "stats" /\ req[s].pc = "done"
        /\ req[s].resp.body.modelsLoaded
        /\ modelsLoaded
        /\ DOMAIN loadingProgress = {modelLoaders[m] : m \in 1..Len(modelLoaders)}

Failed == \E n \in DOMAIN loadingProgress : loadingProgress[n] = "failed"

AllLoaded ==
    /\ DOMAIN loadingProgress = {modelLoaders[m] : m \in 1..Len(modelLoaders)}
    /\ \A n \in DOMAIN loadingProgress : loadingProgress[n] = "loaded"

\* C11: every model loader is invoked at most once, the server listens only
\* once loadModels has set modelsLoaded, and whenever a request handler has
\* run, modelsLoaded is true: no handler answers 503.
C11_ReadyBeforeServing ==
    /\ \A m \in DOMAIN loadCalls : loadCalls[m] <= 1
    /\ proc = "listening" => (modelsLoaded /\ AllLoaded)
    /\ modelsLoaded => \A m \in DOMAIN loadCalls : loadCalls[m] = 1
    /\ \A s \in Slots :
          (req[s].pc # "idle" /\ req[s].resp.status # -1)
          => /\ modelsLoaded
             /\ req[s].arrivedReady
             /\ req[s].resp.status # 503

\* a request in the middle of its strategy loop, after the six loads
C11_Witness ==
    \E s \in Slots :
        /\ req[s].ep = "extract" /\ req[s].pc = "detect"
        /\ req[s].k = 2
        /\ modelsLoaded
        /\ \A m \in DOMAIN loadCalls : loadCalls[m] = 1

\* the calls of a request that have been issued and have not settled: those
\* of the item without a result yet, less a decode already followed by its
\* engine call
Outstanding(r) ==
    {c \in 1..Len(r.calls) :
        /\ r.pc \in {"decode", "detect"}
        /\ r.calls[c].item = Len(r.results)
        /\ ~(r.calls[c].op = "loadImage"
               /\ \E e \in (c + 1)..Len(r.calls) :
                     r.calls[e].op = "detect" /\ r.calls[e].item = r.calls[c].item)}

\* C12: within a batch request the items are handled in input order, one at
\* a time: no decode or engine call of an item exists before the results of
\* all earlier items are recorded, and at most one call is outstanding.
C12_BatchSequential ==
    \A s \in Slots :
        req[s].ep = "batch" =>
            LET r == req[s] IN
            /\ \A c \in 1..Len(r.calls) : r.calls[c].item <= Len(r.results)
            /\ \A c \in 1..(Len(r.calls) - 1) :
                  \/ r.calls[c].item < r.calls[c + 1].item
                  \/ /\ r.calls[c].item = r.calls[c + 1].item
                     /\ r.calls[c].op = "loadImage"
                     /\ r.calls[c + 1].op = "detect"
            /\ \A j \in 1..Len(r.results) : r.results[j].index = j - 1
            /\ r.pc \in {"decode", "detect"} =>
                  /\ r.i = Len(r.results)
                  /\ r.calls[Len(r.calls)].item = r.i
            /\ Cardinality(Outstanding(r)) <= 1

\* the engine call of the third item is outstanding and the first two items
\* have their results
C12_Witness ==
    \E s \in Slots :
        /\ req[s].ep = "batch" /\ req[s].pc = "detect"
        /\ req[s].i = 2
        /\ Len(req[s].results) = 2
        /\ Cardinality(Outstanding(req[s])) = 1

(* ================= fixed batch configuration, responses ================ *)

Decodes(item) == ~BufferFromThrows(item) /\ LoadImageResolves(item)

EngineCallsOf(r, item) ==
    Cardinality({c \in 1..Len(r.calls) :
                    r.calls[c].op = "detect" /\ r.calls[c].item = item})

\* C15: the batch path calls the engine with the one fixed configuration
\* only, exactly once for an item that decodes and never for one that does
\* not, and an item for which that call finds no face is recorded with
\* success=false and error 'No face detected', whatever the other
\* strategies would find in the same image.
C15_BatchFixedConfig ==
    \A s \in Slots :
        req[s].ep = "batch" =>
            LET r == req[s] IN
            /\ \A c \in 1..Len(r.calls) :
                  r.calls[c].op = "detect" => r.calls[c].cfg = BatchConfig
            /\ \A j \in 1..Len(r.results) :
                  /\ EngineCallsOf(r, j - 1) = IF Decodes(r.images[j]) THEN 1 ELSE 0
                  /\ (Decodes(r.images[j]) /\ r.images[j].out[BatchConfig] = "none")
                     => /\ r.results[j].success = FALSE
                        /\ r.results[j].error = "No face detected"

\* an image in which only the second strategy of the single path finds a
\* face is recorded as a failure by the batch
C15_Witness ==
    \E s \in Slots :
        /\ req[s].ep = "batch" /\ req[s].pc = "done"
        /\ Len(req[s].images) = 2
        /\ req[s].images[1] = Payload("corrupt", <<>>)
        /\ req[s].images[2] = Payload("image", <<"none", "face", "none", "none">>)
        /\ req[s].resp.body.results[2].success = FALSE
        /\ req[s].resp.body.results[2].error = "No face detected"
        /\ Len(DetectCalls(req[s])) = 1

\* C16: a response of the single-image path is success=true exactly when a
\* winning strategy name was recorded; a success response names a strategy,
\* and its embedding is the descriptor the engine returned for the image
\* under exactly that strategy, which is the last one that was invoked.
C16_SuccessIffStrategy ==
    \A s \in Slots :
        LET r == req[s] IN
        (r.ep = "extract" /\ r.pc = "done" /\ r.resp.status > 0)
        => /\ r.resp.body.success <=> r.usedStrategy # "null"
           /\ r.resp.body.success =>
                 /\ r.resp.status = 200
                 /\ r.resp.body.strategy # "null"
                 /\ r.resp.body.strategy = r.usedStrategy
                 /\ \E k \in 1..Len(detectionStrategies) :
                       /\ detectionStrategies[k] = r.resp.body.strategy
                       /\ r.image.out[k] = "face"
                       /\ r.resp.body.embedding = <<r.image.out, k>>
                       /\ DetectCalls(r)[Len(DetectCalls(r))].cfg = k

\* the second strategy raised, leaving the first strategy's empty result in
\* detection, and the third strategy then succeeded
C16_Witness ==
    \E s \in Slots :
        /\ req[s].ep = "extract" /\ req[s].pc = "done"
        /\ req[s].image = Payload("image", <<"none", "raise", "face", "face">>)
        /\ req[s].resp.body.success = TRUE
        /\ req[s].resp.body.strategy = "TinyFaceDetector_Low"

\* C17: a request to /extract_embedding or /batch_extract never has more
\* than one response sent; it has none while the handler is waiting on a
\* call, and exactly one once the handler has finished.
C17_ExactlyOneResponse ==
    \A s \in Slots :
        LET r == req[s] IN
        /\ r.sent <= 1
        /\ r.ep \in {"extract", "batch"} =>
              /\ r.pc \in {"decode", "detect"} => (r.sent = 0 /\ r.resp = NoResponse)
              /\ (r.pc = "done" /\ r.resp.status # -1) => (r.sent = 1 /\ r.resp.status > 0)

\* a batch whose only item was rejected by the decoder, answered once
C17_Witness ==
    \E s \in Slots :
        /\ req[s].ep = "batch" /\ req[s].pc = "done"
        /\ req[s].images = <<Payload("corrupt", <<>>)>>
        /\ req[s].sent = 1
        /\ req[s].resp.status = 200

(* ============================ model loading ============================ *)

ProgressOf(m) == loadingProgress[modelLoaders[m]]

\* the number of leading models of modelLoaders that have a progress entry
Entries == Cardinality(DOMAIN loadingProgress)

LoadOrder ==
    /\ DOMAIN loadingProgress = {modelLoaders[m] : m \in 1..Entries}
    /\ \A m \in 1..(Entries - 1) : ProgressOf(m) = "loaded"
    /\ Entries > 0 => ProgressOf(Entries) \in {"loaded", "failed"}
    /\ Cardinality({n \in DOMAIN loadingProgress : loadingProgress[n] = "failed"}) <= 1
    /\ modelsLoaded => AllLoaded
    /\ \A m \in DOMAIN loadCalls :
          loadCalls[m] = IF m <= Entries \/ (m = Entries + 1 /\ ~Failed) THEN 1 ELSE 0

\* C18: the six models are loaded one after another in list order and
\* loading stops at the first failure: modelsLoaded only with all six marked
\* 'loaded', at most one model marked 'failed', no loader call and no
\* progress entry for a model after a failed one, and a progress entry,
\* once written, never changes.
C18_LoadOrder ==
    /\ []LoadOrder
    /\ [][\A n \in DOMAIN loadingProgress :
             /\ n \in DOMAIN loadingProgress'
             /\ loadingProgress'[n] = loadingProgress[n]]_vars

\* three models loaded, the fourth failed, and the startup was abandoned
C18_Witness ==
    /\ Entries = 4
    /\ ProgressOf(3) = "loaded"
    /\ ProgressOf(4) = "failed"
    /\ loadCalls[5] = 0
    /\ proc = "exited"

(* ========================= concurrent requests ========================= *)

\* the response a single-image request receives when it runs alone, the
\* timing field aside
SingleAlone(r) ==
    IF r.image.kind = "missing"
    THEN /\ r.resp.status = 400
         /\ r.resp.body.error = "No image provided in request body"
    ELSE IF r.image.kind # "image"
    THEN /\ r.resp.status = 400
         /\ r.resp.body.error = "Invalid image format or corrupted base64 data"
    ELSE LET first == FirstFace(r.image.out)
         IN  /\ r.resp.status = 200
             /\ IF first > 0
                THEN /\ r.resp.body.success = TRUE
                     /\ r.resp.body.strategy = detectionStrategies[first]
                     /\ r.resp.body.embedding = <<r.image.out, first>>
                ELSE /\ r.resp.body.success = FALSE
                     /\ r.resp.body.strategiesTried = detectionStrategies

\* the response a batch request receives when it runs alone, times aside
BatchAlone(r) ==
    IF ~r.isArray
    THEN r.resp.status = 400
    ELSE /\ r.resp.status = 200
         /\ Len(r.resp.body.results) = Len(r.images)
         /\ \A j \in 1..Len(r.images) :
               /\ r.resp.body.results[j].index = j - 1
               /\ Recorded(r.resp.body.results[j]) = SoloResult(r.images[j])
         /\ r.resp.body.summary.total = Len(r.images)
         /\ r.resp.body.summary.successful =
               Cardinality({j \in 1..Len(r.images) : ItemOutcome(r.images[j]) = "face"})

\* what a request holds while in flight comes from its own payload
OwnState(r) ==
    /\ r.ep = "extract" =>
          /\ r.img \in {<<>>, r.image.out}
          /\ r.detection \in {NullDetection} \cup
                {EngineDetection(r.image.out, k) : k \in 1..Len(detectionStrategies)}
    /\ (r.ep = "batch" /\ r.pc = "detect") =>
          r.img = r.images[r.i + 1].out
    /\ r.ep = "batch" =>
          \A j \in 1..Len(r.results) :
             Recorded(r.results[j]) = SoloResult(r.images[j])

\* C13: with several requests in flight and interleaving at their awaits in
\* any order, every response, timing fields aside, is the one the request
\* would receive alone; the image, detection and results a request holds
\* come from its own payload, and no step changes two requests.
C13_Isolation ==
    /\ [](\A s \in Slots :
             /\ OwnState(req[s])
             /\ (req[s].pc = "done" /\ req[s].ep = "extract") => SingleAlone(req[s])
             /\ (req[s].pc = "done" /\ req[s].ep = "batch") => BatchAlone(req[s]))
    /\ [][\A s, t \in Slots :
             (s # t /\ req'[s] # req[s]) => req'[t] = req[t]]_vars

\* a single-image request at its third strategy while a batch on another
\* connection is decoding its third item
C13_Witness ==
    \E s, t \in Slots :
        /\ s # t
        /\ req[s].ep = "extract" /\ req[s].pc = "detect" /\ req[s].k = 3
        /\ req[t].ep = "batch" /\ req[t].pc = "decode" /\ req[t].i = 2
        /\ Len(req[t].results) = 2

(* ============================= termination ============================= *)

Awaiting(r) == r.pc \in {"decode", "detect"}

\* C14: a request never makes more engine calls than it has strategies (4)
\* or items (N); while it waits on a call its state changes only when that
\* call settles (there is no timeout and no cancellation); and, every
\* pending call eventually settling, a request that waits on a call is
\* eventually answered, unless a signal ends the process first.
C14_RunsToCompletion ==
    /\ [](\A s \in Slots :
             /\ req[s].ep = "extract" => Len(DetectCalls(req[s])) <= 4
             /\ req[s].ep = "batch" => Len(DetectCalls(req[s])) <= Len(req[s].images))
    /\ [][\A s \in Slots :
             (Awaiting(req[s]) /\ req'[s] # req[s]) => Settle(s)]_vars
    /\ \A s \in Sequential :
          Awaiting(req[s]) ~> (req[s].pc = "done" \/ proc = "exited")

\* a request answered after the fourth engine call, and a batch of three
\* answered after three
C14_Witness ==
    \E s \in Slots :
        /\ req[s].ep = "extract" /\ req[s].pc = "done"
        /\ Len(DetectCalls(req[s])) = 4
        /\ req[s].resp.status = 200
        /\ req[s].resp.body.success = FALSE

====
